---- MODULE Spec2Model ----
(***************************************************************************)
(* Model of the ERP API gateway of src/server/erp_api_server.py: the       *)
(* process-wide ERPAPIClient (token, headers), its two coroutines          *)
(* authenticate and make_request, and the tools built on them; and of the  *)
(* database tools of src/server/erp_database.py, as far as the connection  *)
(* and the cursor each of them opens are concerned.                        *)
(*                                                                         *)
(* A coroutine runs without interruption between two awaits; the only      *)
(* await that suspends a call is the HTTP round trip.  A call is therefore *)
(* two steps: the one that sends the request, and the one that resumes     *)
(* with the response (or with the transport's exception) and returns.      *)
(* A call that never reaches the network is a single step.  A call that    *)
(* waits for its response may be cancelled instead.  Leaving the async     *)
(* with block (the close of the httpx client) belongs to the step that     *)
(* returns or is cancelled.                                                *)
(***************************************************************************)
EXTENDS Integers, Sequences, FiniteSets, TLC

VARIABLES
    token,      \* api_client.token
    headers,    \* api_client.headers: header name -> value
    calls,      \* slot -> frame of the tool invocation running in that slot
    clients,    \* slots whose httpx.AsyncClient is open
    last,       \* what the most recently returned invocation did and returned
    db          \* erp_database.py: connections and cursors left open, and
                \* what the latest database tool did

vars == <<token, headers, calls, clients, last, db>>

----------------------------------------------------------------------------
(* Bounds of the model. *)

\* Tool invocations that may be in flight together (SpecConc).
MaxTasks == 3
\* Longest employee_data text, in lexical tokens.
MaxText == 3
\* Deepest nesting of a value json.dumps is given.
MaxDepth == 4
\* Database connections left open that are counted (SpecDb).
MaxOpen == 3

----------------------------------------------------------------------------
(* JSON values, as Python sees them after response.json() / json.loads. *)

JNull == [t |-> "null"]
JBool(b) == [t |-> "bool", b |-> b]
JStr(s) == [t |-> "str", s |-> s]
JNum(n) == [t |-> "num", n |-> n]
JList(q) == [t |-> "list", l |-> q]
JObj(f) == [t |-> "obj", o |-> f]

\* The dict literal {}.
EmptyObj == JObj([k \in {} |-> JNull])

\* A body that response.json() cannot decode (it raises).
Unparsable == [t |-> "invalid"]

\* Marks a key left out of an object under construction; never a value.
Missing == [t |-> "missing"]

\* The dict with the given fields, those set to Missing left out.
ObjOf(f) == JObj([k \in {k2 \in DOMAIN f : f[k2] # Missing} |-> f[k]])

IsObj(v) == v.t = "obj"

\* Python truth value of a decoded JSON value.
Truthy(v) ==
    CASE v.t = "null" -> FALSE
      [] v.t = "bool" -> v.b
      [] v.t = "str" -> v.s # ""
      [] v.t = "num" -> v.n # 0
      [] v.t = "list" -> v.l # <<>>
      [] v.t = "obj" -> DOMAIN v.o # {}

\* dict.get(key, default) on a dict.
Get(d, key, default) == IF key \in DOMAIN d.o THEN d.o[key] ELSE default

\* type(v).__name__
PyType(v) ==
    CASE v.t = "null" -> "NoneType"
      [] v.t = "bool" -> "bool"
      [] v.t = "str" -> "str"
      [] v.t = "num" -> "int"
      [] v.t = "list" -> "list"
      [] v.t = "obj" -> "dict"

\* str(e) of the AttributeError raised by v.get(...) when v is no dict.
AttrErr(v) == "'" \o PyType(v) \o "' object has no attribute 'get'"

\* str(e) of the JSONDecodeError raised by response.json().
JsonDecodeMsg == "Expecting value: line 1 column 1 (char 0)"

\* str(v), as an f-string renders it.
Fmt(v) ==
    CASE v.t = "null" -> "None"
      [] v.t = "bool" -> (IF v.b THEN "True" ELSE "False")
      [] v.t = "str" -> v.s
      [] v.t = "num" -> ToString(v.n)
      [] v.t = "list" -> "[...]"
      [] v.t = "obj" -> "{...}"

----------------------------------------------------------------------------
(* The client object. *)

None == "<None>"

\* API_CONFIG["headers"]
BaseHeaders ==
    ("Content-Type" :> "application/json") @@ ("Accept" :> "application/json")

\* headers[name] = value
SetHeader(h, name, value) == (name :> value) @@ h

\* f"Bearer {token}"
Bearer(t) == "Bearer " \o t

\* The headers of a frame that sent nothing.
NoHeaders == [h \in {} |-> ""]

----------------------------------------------------------------------------
(* ERPAPIClient.authenticate, from the response on.  Every path returns a  *)
(* dict; an exception raised on the way is caught by the blanket except.   *)

\* except Exception as e: the session is left as it is.
authenticate_except(cause, tok, hdrs) ==
    [token |-> tok, headers |-> hdrs,
     result |-> JObj([success |-> JBool(FALSE),
                      message |-> JStr("Authentication error: " \o cause),
                      response |-> JNull])]

\* authenticate_refused, if a refused login also dropped the session.
authenticate_refused_logout(msg, body, tok, hdrs) ==
    [token |-> None, headers |-> BaseHeaders,
     result |-> JObj([success |-> JBool(FALSE), message |-> msg,
                      response |-> body])]

\* The three returns with "success": False.
authenticate_refused(msg, body, tok, hdrs) ==
    [token |-> tok, headers |-> hdrs,
     result |-> JObj([success |-> JBool(FALSE), message |-> msg,
                      response |-> body])]

\* authenticate_accepted, if it stored the token and left the headers alone.
authenticate_accepted_no_header(tk, user, tok, hdrs) ==
    [token |-> tk.s, headers |-> hdrs,
     result |-> JObj([success |-> JBool(TRUE),
                      message |-> JStr("Authentication successful"),
                      user |-> user])]

\* authenticate_accepted, if it kept an Authorization header already there
\* (headers.setdefault instead of the assignment).
authenticate_accepted_keep_header(tk, user, tok, hdrs) ==
    [token |-> tk.s,
     headers |-> IF "Authorization" \in DOMAIN hdrs THEN hdrs
                 ELSE SetHeader(hdrs, "Authorization", Bearer(tk.s)),
     result |-> JObj([success |-> JBool(TRUE),
                      message |-> JStr("Authentication successful"),
                      user |-> user])]

\* authenticate_accepted, if a session that holds a token kept it (the
\* first login to complete wins).
authenticate_accepted_first_wins(tk, user, tok, hdrs) ==
    [token |-> IF tok = None THEN tk.s ELSE tok,
     headers |-> IF tok = None
                 THEN SetHeader(hdrs, "Authorization", Bearer(tk.s))
                 ELSE hdrs,
     result |-> JObj([success |-> JBool(TRUE),
                      message |-> JStr("Authentication successful"),
                      user |-> user])]

\* if token: store it, install the header, return "success": True.
authenticate_accepted(tk, user, tok, hdrs) ==
    [token |-> tk.s,
     headers |-> SetHeader(hdrs, "Authorization", Bearer(tk.s)),
     result |-> JObj([success |-> JBool(TRUE),
                      message |-> JStr("Authentication successful"),
                      user |-> user])]

\* a or b or c
Or3(a, b, c) == IF Truthy(a) THEN a ELSE IF Truthy(b) THEN b ELSE c

\* The fallback chain; data is response_data.get("data", {}), a dict.
extract_token(body, data) ==
    Or3(Get(data, "token", JNull), Get(body, "token", JNull),
        Get(body, "access_token", JNull))

\* login_ok, if the login branch accepted every success status.
login_ok_any_success(status) == status \in {200, 201}

\* The status the login branch accepts.
login_ok(status) == status = 200

authenticate(status, body, tok, hdrs) ==
    IF body = Unparsable THEN authenticate_except(JsonDecodeMsg, tok, hdrs)
    ELSE IF ~IsObj(body) THEN authenticate_except(AttrErr(body), tok, hdrs)
    ELSE IF login_ok(status) THEN
        IF Truthy(Get(body, "success", JBool(FALSE))) THEN
            LET data == Get(body, "data", EmptyObj) IN
            IF ~IsObj(data) THEN authenticate_except(AttrErr(data), tok, hdrs)
            ELSE LET tk == extract_token(body, data) IN
                 IF Truthy(tk)
                 THEN authenticate_accepted(tk, Get(data, "user", EmptyObj),
                                            tok, hdrs)
                 ELSE authenticate_refused(JStr("No token found in response"),
                                           body, tok, hdrs)
        ELSE authenticate_refused(
                 Get(body, "message", JStr("Authentication failed")),
                 body, tok, hdrs)
    ELSE authenticate_refused(
             Get(body, "message", JStr("HTTP " \o ToString(status))),
             body, tok, hdrs)

----------------------------------------------------------------------------
(* ERPAPIClient.make_request. *)

NotAuthenticated ==
    JObj([error |-> JStr("Not authenticated. Please authenticate first.")])

Unsupported(method) ==
    JObj([error |-> JStr("Unsupported HTTP method: " \o method)])

\* str.upper() on the method names the model draws.
Upper(m) ==
    CASE m = "get" -> "GET"
      [] m = "Post" -> "POST"
      [] m = "put" -> "PUT"
      [] m = "delete" -> "DELETE"
      [] m = "patch" -> "PATCH"
      [] OTHER -> m

\* The verbs the if/elif chain sends.
Verbs == {"GET", "POST", "PUT", "DELETE"}

\* The verbs sent with json=data.
BodyVerbs == {"POST", "PUT"}

\* if not self.token
not_token(tok) == tok = None \/ tok = ""

\* make_request_entry, without the test of self.token.
make_request_entry_no_auth_check(method, tok) ==
    IF Upper(method) \in Verbs
    THEN [act |-> "send", result |-> JNull]
    ELSE [act |-> "return", result |-> Unsupported(method)]

\* make_request_entry, if the final else sent the request all the same.
make_request_entry_sends_any(method, tok) ==
    IF not_token(tok) THEN [act |-> "return", result |-> NotAuthenticated]
    ELSE [act |-> "send", result |-> JNull]

\* Up to the await: return at once, or send with this verb.
make_request_entry(method, tok) ==
    IF not_token(tok) THEN [act |-> "return", result |-> NotAuthenticated]
    ELSE IF Upper(method) \in Verbs
         THEN [act |-> "send", result |-> JNull]
         ELSE [act |-> "return", result |-> Unsupported(method)]

\* except Exception as e
make_request_except(cause) == JObj([error |-> JStr("Request error: " \o cause)])

\* The statuses whose body is returned as it is.
request_ok(status) == status \in {200, 201}

\* make_request_return, if the status were tested before the body is
\* decoded.
make_request_return_status_first(status, body) ==
    IF ~request_ok(status)
    THEN JObj([error |-> JStr("API request failed with status "
                               \o ToString(status)),
               message |-> JStr("Unknown error"),
               response |-> JNull])
    ELSE IF body = Unparsable THEN make_request_except(JsonDecodeMsg)
    ELSE body

\* From the response on.
make_request_return(status, body) ==
    IF body = Unparsable THEN make_request_except(JsonDecodeMsg)
    ELSE IF request_ok(status) THEN body
    ELSE IF ~IsObj(body) THEN make_request_except(AttrErr(body))
    ELSE JObj([error |-> JStr("API request failed with status "
                               \o ToString(status)),
               message |-> Get(body, "message", JStr("Unknown error")),
               response |-> body])

----------------------------------------------------------------------------
(* json.loads and json.dumps, on a text given as its lexical tokens. *)

\* A string literal, a number and a word that is no JSON literal.
StrTok == "\"a\""
NumTok == "1"
JunkTok == "invalid"

\* The string literal of s (the model's strings need no escape).
Quote(s) == "\"" \o s \o "\""

\* The strings and numbers whose literals the scanner is given.
JsonStrings == {"a", "id", "message", "error", "data", "Not found", "x"}
JsonNumbers == {1}

IsStrLit(tok) == \E x \in JsonStrings : tok = Quote(x)
IsNumLit(tok) == \E n \in JsonNumbers : tok = ToString(n)
Unquote(tok) == CHOOSE x \in JsonStrings : tok = Quote(x)
NumOf(tok) == CHOOSE n \in JsonNumbers : tok = ToString(n)

\* n spaces.
RECURSIVE Spaces(_)
Spaces(n) == IF n = 0 THEN "" ELSE " " \o Spaces(n - 1)

\* The line break json.dumps(indent=2) writes at nesting depth d.
NL(d) == "\n" \o Spaces(2 * d)

\* Whitespace between tokens, which the scanner skips.
IsSpace(tok) == tok = " " \/ \E d \in 0..MaxDepth : tok = NL(d)

NotSpace(tok) == ~IsSpace(tok)

JsonTokens == {"{", "}", "[", "]", ":", ",", "null", StrTok, NumTok, JunkTok}

ParseFail == [ok |-> FALSE, next |-> 0, val |-> JNull]
Parsed(i, v) == [ok |-> TRUE, next |-> i, val |-> v]

RECURSIVE parse_value(_, _)
RECURSIVE parse_elems(_, _, _)
RECURSIVE parse_members(_, _, _)

\* The value starting at token i.
parse_value(s, i) ==
    IF i > Len(s) THEN ParseFail
    ELSE CASE s[i] = "null" -> Parsed(i + 1, JNull)
           [] s[i] = "true" -> Parsed(i + 1, JBool(TRUE))
           [] s[i] = "false" -> Parsed(i + 1, JBool(FALSE))
           [] IsNumLit(s[i]) -> Parsed(i + 1, JNum(NumOf(s[i])))
           [] IsStrLit(s[i]) -> Parsed(i + 1, JStr(Unquote(s[i])))
           [] s[i] = "[" ->
                IF i + 1 <= Len(s) /\ s[i + 1] = "]"
                THEN Parsed(i + 2, JList(<<>>))
                ELSE parse_elems(s, i + 1, <<>>)
           [] s[i] = "{" ->
                IF i + 1 <= Len(s) /\ s[i + 1] = "}"
                THEN Parsed(i + 2, EmptyObj)
                ELSE parse_members(s, i + 1, [k \in {} |-> JNull])
           [] OTHER -> ParseFail

\* The elements of a list from token i on, up to its "]".
parse_elems(s, i, acc) ==
    LET v == parse_value(s, i) IN
    IF ~v.ok \/ v.next > Len(s) THEN ParseFail
    ELSE IF s[v.next] = "," THEN parse_elems(s, v.next + 1, Append(acc, v.val))
    ELSE IF s[v.next] = "]" THEN Parsed(v.next + 1, JList(Append(acc, v.val)))
    ELSE ParseFail

\* The members of an object from token i on, up to its "}"; a repeated key
\* keeps its last value.
parse_members(s, i, acc) ==
    IF i + 1 > Len(s) \/ ~IsStrLit(s[i]) \/ s[i + 1] # ":" THEN ParseFail
    ELSE LET v == parse_value(s, i + 2)
             key == Unquote(s[i]) IN
         IF ~v.ok \/ v.next > Len(s) THEN ParseFail
         ELSE IF s[v.next] = ","
              THEN parse_members(s, v.next + 1, (key :> v.val) @@ acc)
         ELSE IF s[v.next] = "}"
              THEN Parsed(v.next + 1, JObj((key :> v.val) @@ acc))
         ELSE ParseFail

\* json.loads(text): the value, or ok = FALSE for json.JSONDecodeError.
json_loads(text) ==
    LET s == SelectSeq(text, NotSpace)
        v == parse_value(s, 1) IN
    IF v.ok /\ v.next = Len(s) + 1 THEN [ok |-> TRUE, val |-> v.val]
    ELSE [ok |-> FALSE, val |-> JNull]

\* The keys of a dict, one after the other.
RECURSIVE KeySeq(_)
KeySeq(S) ==
    IF S = {} THEN <<>>
    ELSE LET k == CHOOSE x \in S : TRUE IN <<k>> \o KeySeq(S \ {k})

\* item_sep, if the comma between two items were left out.
item_sep_missing(d) == <<NL(d)>>

\* What json.dumps(indent=2) writes between two items at depth d.
item_sep(d) == <<",", NL(d)>>

RECURSIVE json_dumps(_, _)
RECURSIVE dump_items(_, _, _)
RECURSIVE dump_members(_, _, _, _)

\* json.dumps(v, indent=2), v nested at depth d.
json_dumps(v, d) ==
    CASE v.t = "null" -> <<"null">>
      [] v.t = "bool" -> <<IF v.b THEN "true" ELSE "false">>
      [] v.t = "str" -> <<Quote(v.s)>>
      [] v.t = "num" -> <<ToString(v.n)>>
      [] v.t = "list" ->
            IF v.l = <<>> THEN <<"[", "]">>
            ELSE <<"[", NL(d + 1)>> \o dump_items(v.l, 1, d + 1)
                    \o <<NL(d), "]">>
      [] v.t = "obj" ->
            IF DOMAIN v.o = {} THEN <<"{", "}">>
            ELSE <<"{", NL(d + 1)>>
                    \o dump_members(v.o, KeySeq(DOMAIN v.o), 1, d + 1)
                    \o <<NL(d), "}">>

\* The items of list q from the i-th on.
dump_items(q, i, d) ==
    json_dumps(q[i], d)
        \o (IF i = Len(q) THEN <<>> ELSE item_sep(d) \o dump_items(q, i + 1, d))

\* The members of dict o with keys ks, from the i-th on.
dump_members(o, ks, i, d) ==
    <<Quote(ks[i]), ":", " ">> \o json_dumps(o[ks[i]], d)
        \o (IF i = Len(ks) THEN <<>>
            ELSE item_sep(d) \o dump_members(o, ks, i + 1, d))

----------------------------------------------------------------------------
(* The tools. *)

\* What a tool hands back to its caller: a text, the json.dumps of a value,
\* or an exception it lets through.
NoOut == [kind |-> "none", text |-> "", tokens |-> <<>>, value |-> JNull]
TextOut(s) == [kind |-> "text", text |-> s, tokens |-> <<>>, value |-> JNull]
JsonOut(v) ==
    [kind |-> "json", text |-> "", tokens |-> json_dumps(v, 0), value |-> v]
RaiseOut(s) == [kind |-> "raise", text |-> s, tokens |-> <<>>, value |-> JNull]

\* authenticate_user, from the result of authenticate on.
authenticate_user_out(result) ==
    IF Truthy(result.o["success"]) THEN
        LET user_info == Get(result, "user", EmptyObj) IN
        IF ~IsObj(user_info) THEN RaiseOut(AttrErr(user_info))
        ELSE LET user_name == Get(user_info, "name", JStr("User"))
                 company == Get(user_info, "company", EmptyObj) IN
             IF ~IsObj(company) THEN RaiseOut(AttrErr(company))
             ELSE TextOut("Authentication successful! \nWelcome, "
                          \o Fmt(user_name) \o " from "
                          \o Fmt(Get(company, "name", JStr("Unknown Company")))
                          \o ".\nYou can now use other API tools to interact with the ERP system.")
    ELSE TextOut("Authentication failed: "
                 \o Fmt(Get(result, "message", JStr("Authentication failed"))))

\* The resource tools and the method each passes to make_request.
ToolMethod ==
    [get_employee_by_id |-> "GET", create_employee |-> "POST",
     update_employee |-> "PUT", delete_employee |-> "DELETE"]

\* return json.dumps(result, indent=2); a direct make_request call has no
\* tool around it.
tool_out(tool, result) ==
    IF tool = "make_request" THEN NoOut ELSE JsonOut(result)

InvalidJsonText == "Error: Invalid JSON format for employee_data"

\* parse_payload, if a text that does not decode were passed on as no data.
parse_payload_ignore_error(text) ==
    LET p == json_loads(text) IN [dispatch |-> TRUE, data |-> p.val]

\* try: data = json.loads(employee_data) ... except json.JSONDecodeError:
\* whether the tool goes on to make_request, and with which data.
parse_payload(text) ==
    LET p == json_loads(text) IN
    IF p.ok THEN [dispatch |-> TRUE, data |-> p.val]
    ELSE [dispatch |-> FALSE, data |-> JNull]

----------------------------------------------------------------------------
(* What the backend and the callers may do. *)

\* STATUS_CODES: success, client_error, server_error.
SuccessStatuses == {200, 201}
ClientErrorStatuses == {400, 401, 403, 404, 422}
ServerErrorStatuses == {500, 502, 503, 504}
Statuses == SuccessStatuses \cup ClientErrorStatuses \cup ServerErrorStatuses

UserVals ==
    {Missing, JNull, JObj([name |-> JStr("Ann")]),
     JObj([name |-> JStr("Ann"), company |-> JNull]),
     JObj([name |-> JStr("Ann"), company |-> JObj([name |-> JStr("Acme")])])}

DataVals ==
    {Missing, JNull}
    \cup {ObjOf([token |-> x, user |-> u]) :
            x \in {Missing, JStr(""), JStr("d1")}, u \in UserVals}

\* Login response bodies: every combination of the fields authenticate reads,
\* a body that is no object, and one that does not decode.
LoginBodies ==
    {ObjOf([success |-> s, data |-> d, token |-> tk, access_token |-> at,
            message |-> m]) :
        s \in {Missing, JBool(TRUE), JBool(FALSE)},
        d \in DataVals,
        tk \in {Missing, JStr(""), JStr("t2")},
        at \in {Missing, JStr(""), JStr("a3")},
        m \in {Missing, JNull, JStr("Invalid credentials")}}
    \cup {JList(<<>>), Unparsable}

\* Bodies answered to a resource request.
RequestBodies ==
    {Unparsable, JList(<<>>), JList(<<JObj([id |-> JNum(1)])>>), EmptyObj,
     JObj([message |-> JStr("Not found")]), JObj([message |-> JNull]),
     JObj([error |-> JStr("x"), id |-> JNum(1)]),
     JObj([data |-> JList(<<JObj([id |-> JNum(1)])>>)])}

\* Methods a caller of make_request may pass.
Methods == {"GET", "POST", "PUT", "DELETE", "get", "Post", "PATCH", "patch", "HEAD", ""}

\* str(e) of the exceptions the transport raises.
TransportErrors == {"timed out", "All connection attempts failed"}

\* Every employee_data text of at most MaxText tokens.
Texts == UNION {[1..n -> JsonTokens] : n \in 0..MaxText}

\* The sequential profile: one invocation at a time, every input.
SeqProfile ==
    [slots |-> {1}, statuses |-> Statuses, loginBodies |-> LoginBodies,
     requestBodies |-> RequestBodies, methods |-> Methods,
     tools |-> DOMAIN ToolMethod, texts |-> Texts,
     errors |-> TransportErrors]

\* The concurrent profile: MaxTasks invocations interleaved, on the inputs
\* that decide what a call does to the session: three logins that succeed
\* with different tokens, one that is refused, a request that is sent and
\* one that is not.
ConcProfile ==
    [slots |-> 1..MaxTasks, statuses |-> {200},
     loginBodies |->
        {JObj([success |-> JBool(TRUE), data |-> JObj([token |-> JStr("d1")])]),
         JObj([success |-> JBool(TRUE), token |-> JStr("t2")]),
         JObj([success |-> JBool(TRUE), access_token |-> JStr("a3")]),
         JObj([message |-> JStr("Invalid credentials")])},
     requestBodies |-> {JList(<<>>)},
     methods |-> {"PATCH"},
     tools |-> {"get_employee_by_id"},
     texts |-> {<<JunkTok>>},
     errors |-> {"timed out"}]

----------------------------------------------------------------------------
(* Frames and returns. *)

NoReq == [verb |-> "", headers |-> NoHeaders, json |-> Missing]

\* A slot with no invocation in it.
IdleFrame ==
    [pc |-> "idle", tool |-> "none", method |-> "", arg |-> <<>>,
     req |-> NoReq, sends |-> 0, tok0 |-> None, hdr0 |-> NoHeaders]

\* A slot whose invocation has returned and waits to be collected.
ReturnedFrame == [IdleFrame EXCEPT !.pc = "returned"]

\* The frame of an invocation starting now.
Enter(tool, method, arg) ==
    [IdleFrame EXCEPT !.tool = tool, !.method = method, !.arg = arg,
                      !.tok0 = token, !.hdr0 = headers]

\* send_request, if the request were issued a second time.
send_request_again(f, verb, hdrs, json) ==
    [f EXCEPT !.pc = "sent", !.sends = @ + 2,
              !.req = [verb |-> verb, headers |-> hdrs, json |-> json]]

\* await client.<verb>(url, json=..., headers=self.headers, timeout=30.0):
\* the request goes on the wire with the headers as they are now.
send_request(f, verb, hdrs, json) ==
    [f EXCEPT !.pc = "sent", !.sends = @ + 1,
              !.req = [verb |-> verb, headers |-> hdrs, json |-> json]]

NoLast == [tool |-> "none"]

\* The record of a return: the invocation, whether it called make_request,
\* the requests it sent, the response or exception it got, what it returned,
\* the session when the invocation started and just before the returning
\* step, and whether the invocation was cancelled instead of returning.
Return(f, gateway, status, body, exc, result, out) ==
    [tool |-> f.tool, method |-> f.method, arg |-> f.arg,
     gateway |-> gateway, sends |-> f.sends, req |-> f.req,
     status |-> status, body |-> body, exc |-> exc,
     result |-> result, out |-> out, cancelled |-> FALSE,
     tokCall |-> f.tok0, hdrCall |-> f.hdr0,
     tokPre |-> token, hdrPre |-> headers]

\* close_client, if the client were left open.
close_client_leak(cl, t) == cl

\* Leaving the async with block: the call's client is closed.
close_client(cl, t) == cl \ {t}

\* The body of the login request.
Credentials == JObj([email |-> JStr("a@x.com"), password |-> JStr("bad")])

----------------------------------------------------------------------------
(* The steps.  P is the profile the inputs are drawn from, t the slot. *)

\* authenticate_user is called: authenticate opens a client and posts the
\* credentials with self.headers.
authenticate_user_call(P, t) ==
    /\ calls[t].pc = "idle"
    /\ calls' = [calls EXCEPT ![t] =
                    send_request(Enter("authenticate_user", "POST", <<>>),
                                 "POST", headers, Credentials)]
    /\ clients' = clients \cup {t}
    /\ last' = NoLast
    /\ UNCHANGED <<token, headers>>

\* The login response arrives: authenticate runs to its return, the client
\* is closed, authenticate_user renders the result.
authenticate_resume(P, t) ==
    /\ calls[t].pc = "sent"
    /\ calls[t].tool = "authenticate_user"
    /\ \E status \in P.statuses, body \in P.loginBodies :
          LET r == authenticate(status, body, token, headers) IN
          /\ token' = r.token
          /\ headers' = r.headers
          /\ last' = Return(calls[t], FALSE, status, body, "", r.result,
                            authenticate_user_out(r.result))
    /\ calls' = [calls EXCEPT ![t] = ReturnedFrame]
    /\ clients' = close_client(clients, t)

\* The transport raises instead (timeout, connection error).
authenticate_raise(P, t) ==
    /\ calls[t].pc = "sent"
    /\ calls[t].tool = "authenticate_user"
    /\ \E cause \in P.errors :
          LET r == authenticate_except(cause, token, headers) IN
          /\ token' = r.token
          /\ headers' = r.headers
          /\ last' = Return(calls[t], FALSE, 0, Missing, cause, r.result,
                            authenticate_user_out(r.result))
    /\ calls' = [calls EXCEPT ![t] = ReturnedFrame]
    /\ clients' = close_client(clients, t)

\* make_request is called from frame f with data: it returns at once
\* (before the async with block when no token is stored, inside it on an
\* unsupported method), or opens a client and sends.
gateway(t, f, data) ==
    LET e == make_request_entry(f.method, token)
        verb == Upper(f.method) IN
    IF e.act = "send"
    THEN /\ calls' = [calls EXCEPT ![t] =
                         send_request(f, verb, headers,
                                      IF verb \in BodyVerbs THEN data
                                      ELSE Missing)]
         /\ clients' = clients \cup {t}
         /\ last' = NoLast
         /\ UNCHANGED <<token, headers>>
    ELSE /\ calls' = [calls EXCEPT ![t] = ReturnedFrame]
         /\ last' = Return(f, TRUE, 0, Missing, "", e.result,
                           tool_out(f.tool, e.result))
         /\ clients' = IF not_token(token) THEN clients
                       ELSE close_client(clients \cup {t}, t)
         /\ UNCHANGED <<token, headers>>

\* api_client.make_request(method, endpoint) called as it stands.
make_request_call(P, t) ==
    /\ calls[t].pc = "idle"
    /\ \E method \in P.methods :
          gateway(t, Enter("make_request", method, <<>>), JNull)

\* A resource tool is called; create_employee and update_employee decode
\* their employee_data first.
resource_tool_call(P, t) ==
    /\ calls[t].pc = "idle"
    /\ \E tool \in P.tools :
          IF tool \in {"create_employee", "update_employee"}
          THEN \E text \in P.texts :
                  LET p == parse_payload(text)
                      f == Enter(tool, ToolMethod[tool], text) IN
                  IF p.dispatch THEN gateway(t, f, p.data)
                  ELSE /\ calls' = [calls EXCEPT ![t] = ReturnedFrame]
                       /\ last' = Return(f, FALSE, 0, Missing, "", JNull,
                                         TextOut(InvalidJsonText))
                       /\ UNCHANGED <<token, headers, clients>>
          ELSE gateway(t, Enter(tool, ToolMethod[tool], <<>>), JNull)

\* make_request_resume, if a 401 dropped the session.
make_request_resume_logout_on_401(P, t) ==
    /\ calls[t].pc = "sent"
    /\ calls[t].tool # "authenticate_user"
    /\ \E status \in P.statuses, body \in P.requestBodies :
          LET result == make_request_return(status, body) IN
          /\ last' = Return(calls[t], TRUE, status, body, "", result,
                            tool_out(calls[t].tool, result))
          /\ token' = IF status = 401 THEN None ELSE token
          /\ headers' = IF status = 401 THEN BaseHeaders ELSE headers
    /\ calls' = [calls EXCEPT ![t] = ReturnedFrame]
    /\ clients' = close_client(clients, t)

\* The response to a resource request arrives.
make_request_resume(P, t) ==
    /\ calls[t].pc = "sent"
    /\ calls[t].tool # "authenticate_user"
    /\ \E status \in P.statuses, body \in P.requestBodies :
          LET result == make_request_return(status, body) IN
          last' = Return(calls[t], TRUE, status, body, "", result,
                         tool_out(calls[t].tool, result))
    /\ calls' = [calls EXCEPT ![t] = ReturnedFrame]
    /\ clients' = close_client(clients, t)
    /\ UNCHANGED <<token, headers>>

\* The transport raises instead.
make_request_raise(P, t) ==
    /\ calls[t].pc = "sent"
    /\ calls[t].tool # "authenticate_user"
    /\ \E cause \in P.errors :
          LET result == make_request_except(cause) IN
          last' = Return(calls[t], TRUE, 0, Missing, cause, result,
                         tool_out(calls[t].tool, result))
    /\ calls' = [calls EXCEPT ![t] = ReturnedFrame]
    /\ clients' = close_client(clients, t)
    /\ UNCHANGED <<token, headers>>

\* cancel, if abandoning the request also dropped the session.
cancel_drops_session(P, t) ==
    /\ calls[t].pc = "sent"
    /\ last' = [Return(calls[t], calls[t].tool # "authenticate_user", 0,
                       Missing, "", JNull, NoOut) EXCEPT !.cancelled = TRUE]
    /\ calls' = [calls EXCEPT ![t] = ReturnedFrame]
    /\ clients' = close_client(clients, t)
    /\ token' = None
    /\ headers' = BaseHeaders

\* The task of an invocation is cancelled while it waits for the response:
\* CancelledError is raised at the await, passes the except Exception
\* clause (it is a BaseException) and leaves the async with block; nothing
\* is returned.
cancel(P, t) ==
    /\ calls[t].pc = "sent"
    /\ last' = [Return(calls[t], calls[t].tool # "authenticate_user", 0,
                       Missing, "", JNull, NoOut) EXCEPT !.cancelled = TRUE]
    /\ calls' = [calls EXCEPT ![t] = ReturnedFrame]
    /\ clients' = close_client(clients, t)
    /\ UNCHANGED <<token, headers>>

\* The caller takes the returned value; the slot is free again.
collect(P, t) ==
    /\ calls[t].pc = "returned"
    /\ calls' = [calls EXCEPT ![t] = IdleFrame]
    /\ last' = NoLast
    /\ UNCHANGED <<token, headers, clients>>

----------------------------------------------------------------------------
(* The database tools of erp_database.py.  None of them awaits anything:   *)
(* a call runs from its first statement to its return in one step.  The    *)
(* database is what mysql.connector does: connect succeeds or raises,      *)
(* execute succeeds or raises, the query finds rows or none.               *)

\* What one call did: its connection and its cursor ("none" when never
\* opened, "open" when opened and not closed at the return, "closed"), and
\* the text it returned.
DbRun(conn, cursor, out) == [conn |-> conn, cursor |-> cursor, out |-> out]

\* json.dumps(rows, indent=2, default=str), whatever the rows.
RowsJson == "<json.dumps of the rows>"

\* str(e) of the exceptions mysql.connector raises.
ConnectErrors == {"2003: Can't connect to MySQL server"}
ExecuteErrors == {"1146: Table doesn't exist"}

\* What the database does to one call.
DbEnvs ==
    [connect : {"ok"} \cup ConnectErrors,
     execute : {"ok"} \cup ExecuteErrors,
     rows : 0..1]

\* get_db_connection raising, caught by the tool's except clause.
connect_failed(env) ==
    DbRun("none", "none",
          "Error: Error connecting to the database: " \o env.connect)

\* cursor.execute raising, caught by the tool's except clause: the return
\* of the handler is the next statement.
execute_failed(env) == DbRun("open", "open", "Error: " \o env.execute)

\* get_employee_info(employee_id, email)
get_employee_info(employee_id, email, env) ==
    IF env.connect # "ok" THEN connect_failed(env)
    ELSE IF ~Truthy(employee_id) /\ ~Truthy(email)
         THEN DbRun("open", "open",
                    "Please provide either employee_id or email")
    ELSE IF env.execute # "ok" THEN execute_failed(env)
    ELSE DbRun("closed", "closed",
               IF env.rows > 0 THEN RowsJson ELSE "Employee not found")

\* get_company_info(company_id): both branches return before the two
\* close statements that end the try block.
get_company_info(company_id, env) ==
    IF env.connect # "ok" THEN connect_failed(env)
    ELSE IF env.execute # "ok" THEN execute_failed(env)
    ELSE IF Truthy(company_id)
         THEN DbRun("open", "open",
                    IF env.rows > 0 THEN RowsJson ELSE "Company not found")
    ELSE DbRun("open", "open", RowsJson)

\* The tools that run one query, fetch all rows and close, and what each
\* returns when there are no rows.
NoRowsText ==
    [search_employees |-> "No employees found matching the criteria",
     get_department_employees |-> "No employees found in this department",
     get_employee_attendance |->
        "No attendance records found for the specified period",
     get_employee_leave_history |-> "No leave records found for this employee",
     get_departments |-> "No departments found",
     get_performance_cycles |-> "No performance cycles found",
     get_employee_performance |-> "No performance data found for this employee"]

query_tool(tool, env) ==
    IF env.connect # "ok" THEN connect_failed(env)
    ELSE IF env.execute # "ok" THEN execute_failed(env)
    ELSE DbRun("closed", "closed",
               IF env.rows > 0 THEN RowsJson ELSE NoRowsText[tool])

\* The arguments a caller may pass: none, one that is falsy, one that is
\* not.
IdArgs == {JNull, JNum(0), JNum(42)}
EmailArgs == {JNull, JStr(""), JStr("a@x.com")}

DbNoLast == [tool |-> "none"]

\* The state after a call: what it left open stays open.
db_return(tool, args, env, run) ==
    [conns |-> db.conns + (IF run.conn = "open" THEN 1 ELSE 0),
     cursors |-> db.cursors + (IF run.cursor = "open" THEN 1 ELSE 0),
     last |-> [tool |-> tool, args |-> args, env |-> env, run |-> run]]

get_employee_info_call ==
    /\ db.conns < MaxOpen
    /\ \E employee_id \in IdArgs, email \in EmailArgs, env \in DbEnvs :
          db' = db_return("get_employee_info", <<employee_id, email>>, env,
                          get_employee_info(employee_id, email, env))
    /\ UNCHANGED <<token, headers, calls, clients, last>>

get_company_info_call ==
    /\ db.conns < MaxOpen
    /\ \E company_id \in IdArgs, env \in DbEnvs :
          db' = db_return("get_company_info", <<company_id>>, env,
                          get_company_info(company_id, env))
    /\ UNCHANGED <<token, headers, calls, clients, last>>

query_tool_call ==
    /\ db.conns < MaxOpen
    /\ \E tool \in DOMAIN NoRowsText, env \in DbEnvs :
          db' = db_return(tool, <<>>, env, query_tool(tool, env))
    /\ UNCHANGED <<token, headers, calls, clients, last>>

----------------------------------------------------------------------------
(* The specifications. *)

\* api_client = ERPAPIClient(): no token, the two base headers.
Init ==
    /\ token = None
    /\ headers = BaseHeaders
    /\ calls = [t \in 1..MaxTasks |-> IdleFrame]
    /\ clients = {}
    /\ last = NoLast
    /\ db = [conns |-> 0, cursors |-> 0, last |-> DbNoLast]

Step(P) ==
    /\ \E t \in P.slots :
          \/ authenticate_user_call(P, t)
          \/ authenticate_resume(P, t)
          \/ authenticate_raise(P, t)
          \/ make_request_call(P, t)
          \/ resource_tool_call(P, t)
          \/ make_request_resume(P, t)
          \/ make_request_raise(P, t)
          \/ cancel(P, t)
          \/ collect(P, t)
    /\ UNCHANGED db

Next == Step(SeqProfile)

NextConc == Step(ConcProfile)

\* One invocation at a time, every input.
Spec == Init /\ [][Next]_vars

\* MaxTasks invocations interleaved.
SpecConc == Init /\ [][NextConc]_vars

NextDb ==
    \/ get_employee_info_call
    \/ get_company_info_call
    \/ query_tool_call

\* The database tools, one call after the other.
SpecDb == Init /\ [][NextDb]_vars

----------------------------------------------------------------------------
(* What the claims speak of. *)

\* An invocation returned in the latest step (a value, or an exception of
\* its own).
Returned == last.tool # "none" /\ ~last.cancelled

\* An invocation was cancelled in the latest step.
Cancelled == last.tool # "none" /\ last.cancelled

\* ... and it was authenticate_user / it went through make_request.
AuthReturned == Returned /\ last.tool = "authenticate_user"
GatewayReturned == Returned /\ last.gateway

\* authenticate returned "success": True.
AuthSucceeded == AuthReturned /\ Truthy(last.result.o["success"])

\* The login response's data.token, token, access_token, in that order
\* (null where the body has none).
TokenFields(body) ==
    <<IF "data" \in DOMAIN body.o /\ IsObj(body.o["data"])
      THEN Get(body.o["data"], "token", JNull) ELSE JNull,
      Get(body, "token", JNull),
      Get(body, "access_token", JNull)>>

\* The first non-empty of the three, null when there is none.
FirstNonEmpty(body) ==
    LET c == TokenFields(body) IN
    IF Truthy(c[1]) THEN c[1]
    ELSE IF Truthy(c[2]) THEN c[2]
    ELSE IF Truthy(c[3]) THEN c[3]
    ELSE JNull

\* A login body whose success flag is set and whose data, when present, is
\* an object: the bodies on which only the status and the tokens are left
\* to decide the outcome.
WellFormedLogin(body) ==
    /\ IsObj(body)
    /\ Truthy(Get(body, "success", JBool(FALSE)))
    /\ ("data" \in DOMAIN body.o => IsObj(body.o["data"]))

\* The session after a login that stored t, whatever it was before.
SessionOf(t) == [token |-> t, headers |-> ("Authorization" :> ("Bearer " \o t)) @@ BaseHeaders]

\* The JSON texts of at most MaxText tokens, built from the grammar: a
\* scalar, a list of values, an object of "a": value members.  (Lists of up
\* to two elements and objects of one member: every JSON text of up to six
\* tokens.)
ShortEnough(S) == {x \in S : Len(x) <= MaxText}

RECURSIVE JsonTexts(_)
JsonTexts(k) ==
    IF k = 0
    THEN ShortEnough({<<"null">>, <<NumTok>>, <<StrTok>>, <<"[", "]">>, <<"{", "}">>})
    ELSE LET G == JsonTexts(k - 1) IN
         G \cup ShortEnough({<<"[">> \o v \o <<"]">> : v \in G})
           \cup ShortEnough({<<"[">> \o v \o <<",">> \o w \o <<"]">> : v, w \in G})
           \cup ShortEnough({<<"{", StrTok, ":">> \o v \o <<"}">> : v \in G})

ValidTexts == JsonTexts(MaxText)

ValidJson(text) == text \in ValidTexts

\* The spellings of the four methods among Methods, whatever their case.
SupportedSpellings == {"GET", "POST", "PUT", "DELETE", "get", "Post"}

----------------------------------------------------------------------------
(* The claims. *)

\* C1: a make_request call made while no token is stored returns the "Not
\* authenticated. Please authenticate first." error and sends nothing,
\* whatever the method and the tool that made the call.
C1_UnauthenticatedCallIsRefused ==
    (GatewayReturned /\ last.tokCall = None) =>
        /\ last.result = NotAuthenticated
        /\ last.sends = 0
        /\ last.req = NoReq
        /\ last.status = 0 /\ last.exc = ""

\* C1 witness: get_employee_by_id called before any login has returned the
\* error.
C1_Witness ==
    /\ GatewayReturned
    /\ last.tool = "get_employee_by_id"
    /\ last.tokCall = None
    /\ last.out = JsonOut(NotAuthenticated)

\* C2, as claimed: a login answered with a success status (2xx) whose body
\* carries a non-empty data.token, token or access_token stores the first
\* non-empty of them, in that order, as the session token.  Stated on the
\* bodies most favourable to the code: success flag set, data well formed.
C2_FirstNonEmptyTokenStored ==
    (/\ AuthReturned
     /\ last.status \in SuccessStatuses
     /\ WellFormedLogin(last.body)
     /\ Truthy(FirstNonEmpty(last.body)))
        => token = FirstNonEmpty(last.body).s

\* C3, as claimed: the status decides the outcome, in authenticate and in
\* make_request: 200 and 201 give a success, the 4xx and 5xx of STATUS_CODES
\* a failure of the status.  Stated on the responses where nothing but the
\* status is left to decide: the body is an object and, for a login, carries
\* the success flag and a usable token.
C3_StatusDecidesOutcome ==
    (/\ Returned
     /\ last.status # 0
     /\ IsObj(last.body)
     /\ last.tool = "authenticate_user" =>
            (WellFormedLogin(last.body) /\ Truthy(FirstNonEmpty(last.body))))
        => IF last.status \in SuccessStatuses
           THEN IF last.tool = "authenticate_user"
                THEN Truthy(last.result.o["success"])
                ELSE last.result = last.body
           ELSE IF last.tool = "authenticate_user"
                THEN /\ ~Truthy(last.result.o["success"])
                     /\ last.result.o["response"] = last.body
                ELSE Get(last.result, "error", JNull) =
                        JStr("API request failed with status "
                             \o ToString(last.status))

\* C4: in every reachable state, under any interleaving of the calls, the
\* stored token is None or a non-empty string, and the headers hold
\* Authorization exactly when a token is stored, then as "Bearer " and that
\* token; the other headers stay the base headers.
C4_SessionConsistent ==
    /\ token # ""
    /\ ("Authorization" \in DOMAIN headers) <=> (token # None)
    /\ token # None => headers["Authorization"] = "Bearer " \o token
    /\ \A h \in DOMAIN BaseHeaders :
          h \in DOMAIN headers /\ headers[h] = BaseHeaders[h]
    /\ DOMAIN headers \subseteq DOMAIN BaseHeaders \cup {"Authorization"}

\* C4 witness: a second login has replaced the token of the first while a
\* request sent with the first token is still in flight.
C4_Witness ==
    /\ AuthSucceeded
    /\ last.tokPre # None
    /\ last.tokPre # token
    /\ \E t \in 1..MaxTasks :
          /\ calls[t].pc = "sent"
          /\ calls[t].req.headers = SessionOf(last.tokPre).headers

\* C5: an authenticate that does not succeed -- a status that is no
\* success, a transport failure, a success response without a token, or any
\* other return with "success": False -- leaves token and headers as they
\* were; answered 401 {"message": "Invalid credentials"} it fails with the
\* message "Invalid credentials".
C5_FailedLoginKeepsSession ==
    AuthReturned =>
        /\ (\/ last.exc # ""
            \/ last.status \notin SuccessStatuses
            \/ ~IsObj(last.body)
            \/ ~Truthy(FirstNonEmpty(last.body)))
              => ~Truthy(last.result.o["success"])
        /\ ~Truthy(last.result.o["success"]) =>
              /\ token = last.tokPre
              /\ headers = last.hdrPre
              /\ last.tokPre = last.tokCall
        /\ (/\ last.status = 401
            /\ IsObj(last.body)
            /\ Get(last.body, "message", JNull) = JStr("Invalid credentials"))
              => /\ ~Truthy(last.result.o["success"])
                 /\ last.result.o["message"] = JStr("Invalid credentials")

\* C5 witness: a session holding a token has been answered 401
\* {"message": "Invalid credentials"} on a new login.
C5_Witness ==
    /\ AuthReturned
    /\ last.status = 401
    /\ last.body = JObj([message |-> JStr("Invalid credentials")])
    /\ last.tokPre # None
    /\ token = last.tokPre

\* C6: after an authenticate that succeeded, the session is the one of the
\* token it extracted -- that token, the base headers and Authorization =
\* "Bearer " and that token -- whatever token and header were there before;
\* so the same login run again leaves the state it already produced.
C6_LoginReplacesSession ==
    AuthSucceeded =>
        /\ Truthy(FirstNonEmpty(last.body))
        /\ [token |-> token, headers |-> headers]
              = SessionOf(FirstNonEmpty(last.body).s)
        /\ last.tokPre = token => headers = last.hdrPre

\* C6 witness: a login succeeded on a session that held another token.
C6_Witness ==
    /\ AuthSucceeded
    /\ last.tokPre \notin {None, token}
    /\ "Authorization" \in DOMAIN last.hdrPre

\* C7, as claimed: a login answered with a success status whose body has no
\* non-empty data.token, token or access_token fails with the message "No
\* token found in response" and does not authenticate the session.  Stated
\* on the bodies most favourable to the code, as C2.
C7_NoTokenMessage ==
    (/\ AuthReturned
     /\ last.status \in SuccessStatuses
     /\ WellFormedLogin(last.body)
     /\ ~Truthy(FirstNonEmpty(last.body)))
        => /\ ~Truthy(last.result.o["success"])
           /\ last.result.o["message"] = JStr("No token found in response")
           /\ token = last.tokPre

\* C8: a call sends at most one request, and one that got a response or a
\* transport failure, whichever, returns having sent exactly one.
C8_OneRequestPerCall ==
    /\ \A t \in 1..MaxTasks :
          /\ calls[t].sends <= 1
          /\ calls[t].pc = "sent" => calls[t].sends = 1
    /\ Returned =>
          /\ last.sends <= 1
          /\ (last.status # 0 \/ last.exc # "") => last.sends = 1

\* C8 witness: a request that timed out has returned its error.
C8_Witness ==
    /\ GatewayReturned
    /\ last.exc = "timed out"
    /\ last.result = make_request_except("timed out")

\* C9, as claimed: for every method that is none of GET, POST, PUT, DELETE
\* in any case, make_request returns the error naming the method and sends
\* nothing.
C9_UnsupportedMethodNamed ==
    (GatewayReturned /\ last.method \notin SupportedSpellings) =>
        /\ last.result = JObj([error |-> JStr("Unsupported HTTP method: "
                                              \o last.method)])
        /\ last.sends = 0

\* C9, amended: for every such method make_request sends nothing; it
\* returns the error naming the method when a token is stored, and the
\* "Not authenticated" error when none is.
C9_UnsupportedMethodLocal ==
    (GatewayReturned /\ last.method \notin SupportedSpellings) =>
        /\ last.sends = 0
        /\ last.req = NoReq
        /\ last.result =
              IF last.tokCall = None THEN NotAuthenticated
              ELSE JObj([error |-> JStr("Unsupported HTTP method: "
                                        \o last.method)])

\* C9 witness: PATCH was refused on an authenticated session.
C9_Witness ==
    /\ GatewayReturned
    /\ last.method = "PATCH"
    /\ last.tokCall # None
    /\ last.result = JObj([error |-> JStr("Unsupported HTTP method: PATCH")])

Tools == DOMAIN ToolMethod \cup {"authenticate_user"}

\* The headers of a session whose token is tok.
HeadersOf(tok) == IF tok = None THEN BaseHeaders ELSE SessionOf(tok).headers

\* C11, as claimed: whatever the backend does -- any status, any body, a
\* null or non-object user or company, a transport failure -- a tool that
\* is not cancelled returns a text and lets no exception through.
C11_NoExceptionEscapes ==
    (Returned /\ last.tool \in Tools) => last.out.kind \in {"text", "json"}

C13_CancelKeepsSession ==
    Cancelled =>
        /\ last.sends = 1
        /\ token = last.tokCall
        /\ headers = last.hdrCall
        /\ headers = HeadersOf(token)

\* C13 witness: authenticate_user was cancelled on a session holding a
\* token.
C13_Witness ==
    /\ Cancelled
    /\ last.tool = "authenticate_user"
    /\ last.tokCall # None
    /\ token = last.tokCall

\* C14: make_request and the resource tools leave the session alone:
\* whatever the call returned -- the body of a 200, the error of a 401 or
\* of a 5xx, of a transport failure, of an unsupported method, of a missing
\* token, of an employee_data that does not decode -- token and headers are
\* those of the moment it was called.
C14_GatewayKeepsSession ==
    (Returned /\ last.tool # "authenticate_user") =>
        /\ token = last.tokCall
        /\ headers = last.hdrCall
        /\ token = last.tokPre
        /\ headers = last.hdrPre

\* C14 witness: a request of an authenticated session was answered 401.
C14_Witness ==
    /\ GatewayReturned
    /\ last.status = 401
    /\ last.tokCall # None
    /\ token = last.tokCall
    /\ "Authorization" \in DOMAIN headers

\* The result of make_request reads as an error: a dict with an "error" key.
IsErrorResult(r) == IsObj(r) /\ "error" \in DOMAIN r.o

\* The call got a response of a success status whose body decodes.
GotSuccess == last.status \in SuccessStatuses /\ last.body # Unparsable

\* C15, as claimed: a result of authenticate or make_request is a success
\* or an error and never both -- a make_request result reads as an error
\* exactly when the call did not get a success response -- and the message
\* of an error is never null.
C15_OneOutcomeWithMessage ==
    /\ AuthReturned =>
          (~Truthy(last.result.o["success"]) =>
              last.result.o["message"].t = "str")
    /\ GatewayReturned =>
          /\ IsErrorResult(last.result) <=> ~GotSuccess
          /\ (IsErrorResult(last.result) /\ "message" \in DOMAIN last.result.o)
                => last.result.o["message"].t = "str"

\* C16: a resource tool called with a token stored and answered 200 or 201
\* with a JSON value returns json.dumps(indent=2) of that very value, and
\* json.loads of the returned text is that value again.
C16_SuccessRoundTrip ==
    (/\ GatewayReturned
     /\ last.tool \in DOMAIN ToolMethod
     /\ last.tokCall # None
     /\ GotSuccess)
        => /\ last.out.kind = "json"
           /\ last.out.tokens = json_dumps(last.body, 0)
           /\ json_loads(last.out.tokens) = [ok |-> TRUE, val |-> last.body]

\* C16 witness: get_employee_by_id was answered 200 with a list of one
\* record, returned over several lines.
C16_Witness ==
    /\ GatewayReturned
    /\ last.tool = "get_employee_by_id"
    /\ last.status = 200
    /\ last.body = JList(<<JObj([id |-> JNum(1)])>>)
    /\ last.out.tokens =
          <<"[", "\n  ", "{", "\n    ", "\"id\"", ":", " ", "1", "\n  ", "}",
            "\n", "]">>

\* A tool call that failed: a login refused, an employee_data that does
\* not decode, a request refused, failed or answered with an error.
ToolFailed ==
    /\ Returned
    /\ last.tool \in Tools
    /\ last.out.kind # "raise"
    /\ IF last.tool = "authenticate_user"
       THEN ~Truthy(last.result.o["success"])
       ELSE ~last.gateway \/ ~GotSuccess

\* C17, as claimed: a tool call that failed returns one line of text, not
\* a JSON document laid out over several lines.
C17_FailureIsOneLine ==
    ToolFailed => (last.out.kind = "text" /\ last.out.tokens = <<>>)

\* The cause of a call that got no decodable response: str(e) of the
\* transport's exception, or of the JSONDecodeError.
CauseText == IF last.exc # "" THEN last.exc ELSE JsonDecodeMsg

\* C18: when the transport raises, or the body of the response does not
\* decode, whatever the status, authenticate returns its failure with
\* "Authentication error: " and the cause, make_request its error with
\* "Request error: " and the cause; the call sent once and sends no more.
C18_TransportFailureIsReported ==
    (Returned /\ (last.exc # "" \/ last.body = Unparsable)) =>
        /\ last.sends = 1
        /\ \A t \in 1..MaxTasks : calls[t].pc # "sent"
        /\ IF last.tool = "authenticate_user"
           THEN last.result =
                    JObj([success |-> JBool(FALSE),
                          message |-> JStr("Authentication error: " \o CauseText),
                          response |-> JNull])
           ELSE last.result =
                    JObj([error |-> JStr("Request error: " \o CauseText)])

\* C18 witness: a request was answered 500 with a body that does not
\* decode.
C18_Witness ==
    /\ GatewayReturned
    /\ last.status = 500
    /\ last.body = Unparsable
    /\ last.result = JObj([error |-> JStr("Request error: " \o JsonDecodeMsg)])

\* C19: a client is open exactly while its call waits for the response:
\* none is open for a slot whose call has returned, was cancelled or never
\* sent, under any interleaving, and each call in flight has its own.
C19_ClientReleased ==
    \A t \in 1..MaxTasks : (t \in clients) <=> (calls[t].pc = "sent")

\* C19 witness: a call was cancelled, its client is closed, and another
\* call is in flight with its client open.
C19_Witness ==
    /\ Cancelled
    /\ \E t, u \in 1..MaxTasks :
          /\ calls[t].pc = "returned" /\ t \notin clients
          /\ calls[u].pc = "sent" /\ u \in clients

\* C20, as claimed: a login answered with a 4xx or 5xx status and a body
\* that decodes fails with the body's "message" when the body has one, and
\* otherwise with a text made of the status.
C20_FailureMessageFromBody ==
    (/\ AuthReturned
     /\ last.status \in ClientErrorStatuses \cup ServerErrorStatuses
     /\ last.body # Unparsable)
        => /\ ~Truthy(last.result.o["success"])
           /\ last.result.o["message"] =
                 IF IsObj(last.body) /\ "message" \in DOMAIN last.body.o
                 THEN last.body.o["message"]
                 ELSE JStr("HTTP " \o ToString(last.status))

\* The session as a pair.
Session == [token |-> token, headers |-> headers]

DbReturned == db.last.tool # "none"

\* C22, as claimed: a database tool that opened a connection has closed
\* its cursor and its connection when it returns, on every path -- row
\* found or not, neither employee_id nor email given, either branch of
\* get_company_info, the query raising -- so that no connection and no
\* cursor is ever left open.
C22_ConnectionClosedOnReturn ==
    /\ (DbReturned /\ db.last.run.conn # "none") =>
          (db.last.run.conn = "closed" /\ db.last.run.cursor = "closed")
    /\ db.conns = 0
    /\ db.cursors = 0

====
